---- MODULE Spec2Model ----
(***************************************************************************)
(* Model of Front-app/Assistant.py: the Gemini completion client           *)
(* (call_gemini_api, its retry loop and response extraction) and the       *)
(* Streamlit script that drives it (sidebar upload, question, Generate,    *)
(* Clear Result).                                                          *)
(*                                                                         *)
(* Spec   : one call_gemini_api call after another, stepped attempt by    *)
(*          attempt against a transport that may answer anything.         *)
(* SpecUI : the Streamlit script, one action per rerun.                    *)
(***************************************************************************)
EXTENDS Integers, Sequences, FiniteSets, TLC

VARIABLES
    json_error_is_request_exception, \* build: requests >= 2.27 raises a RequestException subclass from Response.json()
    pc,                \* position of the call: "idle", "try", "sleep", "returned", "raised"
    document_content,  \* argument of the running call
    user_query,        \* argument of the running call
    attempt,           \* loop variable of `for attempt in range(max_retries)`
    response,          \* local variable `response` (NoResponse while unbound)
    wait_time,         \* local variable `wait_time` of the sleep in progress
    result,            \* value returned, or exception that escaped
    outcomes,          \* history: what the transport answered to each attempt
    log,               \* history: requests.post and time.sleep calls, in order
    uploaded_files,    \* st.file_uploader widget value
    query_widget,      \* st.text_input widget value (key "user_query")
    session_keys,      \* keys present in st.session_state
    session_document_content, \* st.session_state['document_content']
    summary_result,    \* st.session_state['summary_result']
    summary_source,    \* history: stored content the displayed summary was computed from
    displayed,         \* whether the last run rendered the "4. AI Response" box
    last_call          \* history: the last call the script made

client_vars == <<pc, document_content, user_query, attempt, response, wait_time,
                 result, outcomes, log>>
ui_vars == <<uploaded_files, query_widget, session_keys, session_document_content,
             summary_result, summary_source, displayed, last_call>>
vars == <<json_error_is_request_exception, client_vars, ui_vars>>

----------------------------------------------------------------------------
(* Strings that matter only through their length and origin: a content is  *)
(* the first `len` characters of the text joined from the files `src`.      *)

Content(src, len) == [src |-> src, len |-> len]
EmptyContent == Content(<<>>, 0)

\* s[:n]
Slice(s, n) == Content(s.src, IF s.len < n THEN s.len ELSE n)

\* `not s` for a str
Falsy(s) == s.len = 0

----------------------------------------------------------------------------
(* Values call_gemini_api hands back.  A formatted message is its template *)
(* plus the values interpolated in it.                                     *)

GuardMsg == "Please upload documents and enter a question."
ApiErrorMsg == "An API error occurred after {attempt + 1} attempts: {e}"
UnexpectedMsg == "An unexpected error occurred: {e}"
ExhaustedMsg == "Failed to get a response from the API after multiple retries."
PlaceholderText == "No response generated."

Returned(type, msg, n, e) == [type |-> type, msg |-> msg, attempts |-> n, cause |-> e]
NoResult == Returned("none", "", 0, "")

max_retries == 5

RetryableStatusAny5xx == {429, 500, 502, 503}

\* [429, 500, 503]
RetryableStatus == {429, 500, 503}

BackoffLinear(a) == 2 * a

\* 2 ** attempt
Backoff(a) == 2 ^ a

----------------------------------------------------------------------------
(* JSON values as Python sees them after response.json().                   *)

JDict(kv) == [t |-> "dict", kv |-> kv]
JList(items) == [t |-> "list", items |-> items]
JStr(s) == [t |-> "str", s |-> s]
JInt(i) == [t |-> "int", i |-> i]
JNull == [t |-> "NoneType"]
Raise(name) == [t |-> "exc", name |-> name]

HasKey(d, key) == \E i \in 1..Len(d.kv) : d.kv[i][1] = key
ValueAt(d, key) == d.kv[CHOOSE i \in 1..Len(d.kv) : d.kv[i][1] = key][2]

\* x.get(key, default); only a dict has .get
Get(x, key, default) ==
    IF x.t = "exc" THEN x
    ELSE IF x.t = "dict" THEN (IF HasKey(x, key) THEN ValueAt(x, key) ELSE default)
    ELSE Raise("AttributeError")

\* x[0]
Index0(x) ==
    IF x.t = "exc" THEN x
    ELSE IF x.t = "list" THEN (IF Len(x.items) > 0 THEN x.items[1] ELSE Raise("IndexError"))
    ELSE IF x.t = "dict" THEN Raise("KeyError")  \* the keys of a decoded object are strings
    ELSE IF x.t = "str" THEN (IF x.s = "" THEN Raise("IndexError") ELSE JStr("<first character>"))
    ELSE Raise("TypeError")

\* result.get('candidates', [{}])[0].get('content', {}).get('parts', [{}])[0].get('text', 'No response generated.')
ExtractText(body) ==
    Get(Index0(Get(Get(Index0(Get(body, "candidates", JList(<<JDict(<<>>)>>))),
                       "content", JDict(<<>>)),
                   "parts", JList(<<JDict(<<>>)>>))),
        "text", JStr(PlaceholderText))

AnswerText == "The report lists three findings."

Parts(p) == JDict(<< <<"candidates", JList(<<JDict(<< <<"content", JDict(<< <<"parts", p>> >>)>> >>)>>)>> >>)

BodyIds == {"valid", "no_candidates", "empty_candidates", "no_content", "no_parts",
            "empty_parts", "no_text", "null_content", "list_body", "text_is_number",
            "not_json"}

\* response.json(): the decoded body of each modelled response; "not_json"
\* does not decode.
Json(id) ==
    CASE id = "valid" -> Parts(JList(<<JDict(<< <<"text", JStr(AnswerText)>> >>)>>))
      [] id = "no_candidates" -> JDict(<< <<"promptFeedback", JDict(<<>>)>> >>)
      [] id = "empty_candidates" -> JDict(<< <<"candidates", JList(<<>>)>> >>)
      [] id = "no_content" -> JDict(<< <<"candidates", JList(<<JDict(<< <<"finishReason", JStr("SAFETY")>> >>)>>)>> >>)
      [] id = "no_parts" -> JDict(<< <<"candidates", JList(<<JDict(<< <<"content", JDict(<< <<"role", JStr("model")>> >>)>> >>)>>)>> >>)
      [] id = "empty_parts" -> Parts(JList(<<>>))
      [] id = "no_text" -> Parts(JList(<<JDict(<< <<"inlineData", JDict(<<>>)>> >>)>>))
      [] id = "null_content" -> JDict(<< <<"candidates", JList(<<JDict(<< <<"content", JNull>> >>)>>)>> >>)
      [] id = "list_body" -> JList(<<>>)
      [] id = "text_is_number" -> Parts(JList(<<JDict(<< <<"text", JInt(42)>> >>)>>))
      [] OTHER -> Raise("JSONDecodeError")

----------------------------------------------------------------------------
(* The transport: what one requests.post may produce.                       *)

NoResponse == [status_code |-> 0, body |-> "unbound"]
ConnectionFailure == [status_code |-> 0, body |-> "no response"]
HttpStatuses == {200, 404, 429, 500, 502, 503}

Outcomes ==
    {ConnectionFailure}
    \cup {[status_code |-> s, body |-> "error page"] : s \in {s \in HttpStatuses : s >= 400}}
    \cup {[status_code |-> s, body |-> b] : s \in {s \in HttpStatuses : s < 400}, b \in BodyIds}

\* response.raise_for_status() raises HTTPError
IsHttpError(status) == status >= 400 /\ status < 600

----------------------------------------------------------------------------
(* call_gemini_api                                                          *)

GuardFailsBothEmpty(doc, query) == Falsy(doc) /\ query = ""

\* if not document_content or not user_query
GuardFails(doc, query) == Falsy(doc) \/ query = ""

\* An exception in flight: its class, and whether it is a RequestException.
Exc(name, isRequestException) == [name |-> name, request |-> isRequestException]

CatchesEverything(name, build) == TRUE

\* Whether the except clause at line 99 catches an exception raised while
\* reading the body.  Response.json() raises requests' JSONDecodeError, a
\* RequestException since requests 2.27; before that a plain ValueError.
IsRequestException(name, build) == name = "JSONDecodeError" /\ build

\* The try block (lines 90-97) on one transport outcome:
\* the response bound by the assignment (or the old one), and either the
\* value returned or the exception raised.
TryBlock(oc, old, build) ==
    IF oc = ConnectionFailure
    THEN [response |-> old, raised |-> TRUE, exc |-> Exc("ConnectionError", TRUE), value |-> JNull]
    ELSE IF IsHttpError(oc.status_code)
    THEN [response |-> oc, raised |-> TRUE, exc |-> Exc("HTTPError", TRUE), value |-> JNull]
    ELSE LET text_result == ExtractText(Json(oc.body)) IN
         IF text_result.t = "exc"
         THEN [response |-> oc, raised |-> TRUE,
               exc |-> Exc(text_result.name, IsRequestException(text_result.name, build)),
               value |-> JNull]
         ELSE [response |-> oc, raised |-> FALSE, exc |-> Exc("", FALSE), value |-> text_result]

\* return text_result
ReturnValue(v) ==
    IF v.t = "str" THEN Returned("str", v.s, 0, "")
    ELSE Returned(v.t, "<not a str>", 0, "")

\* The except clauses (lines 99-108): what the iteration does next.
ExceptClauses(a, resp, exc) ==
    IF exc.request
    THEN IF a < max_retries - 1
         THEN IF resp = NoResponse
              THEN [pc |-> "raised", result |-> Returned("exception", "", 0, "UnboundLocalError"), wait_time |-> 0]
              ELSE IF resp.status_code \in RetryableStatus
              THEN [pc |-> "sleep", result |-> NoResult, wait_time |-> Backoff(a)]
              ELSE [pc |-> "returned", result |-> Returned("str", ApiErrorMsg, a + 1, exc.name), wait_time |-> 0]
         ELSE [pc |-> "returned", result |-> Returned("str", ApiErrorMsg, a + 1, exc.name), wait_time |-> 0]
    ELSE [pc |-> "returned", result |-> Returned("str", UnexpectedMsg, 0, exc.name), wait_time |-> 0]

\* One pass through the loop body (lines 89-108).
Iteration(a, resp, oc, build) ==
    LET t == TryBlock(oc, resp, build) IN
    IF t.raised
    THEN LET h == ExceptClauses(a, t.response, t.exc) IN
         [response |-> t.response, pc |-> h.pc, result |-> h.result, wait_time |-> h.wait_time]
    ELSE [response |-> t.response, pc |-> "returned", result |-> ReturnValue(t.value), wait_time |-> 0]

----------------------------------------------------------------------------
(* Spec: calls of call_gemini_api, one attempt per step.                    *)

MaxFiles == 2

Post(n) == [ev |-> "post", arg |-> n]
Slept(t) == [ev |-> "sleep", arg |-> t]

Queries == {"", "Summarize the key findings"}

\* Arguments a direct caller passes.
CallerContents == {EmptyContent, Content(<<"notes.txt">>, 1200), Content(<<"book.pdf">>, 150000)}

ClientInit ==
    /\ pc = "idle"
    /\ document_content = EmptyContent
    /\ user_query = ""
    /\ attempt = 0
    /\ response = NoResponse
    /\ wait_time = 0
    /\ result = NoResult
    /\ outcomes = <<>>
    /\ log = <<>>

\* Entry of call_gemini_api up to the loop (lines 54-88).
Call(doc, query) ==
    /\ pc \in {"idle", "returned", "raised"}
    /\ document_content' = doc
    /\ user_query' = query
    /\ attempt' = 0
    /\ response' = NoResponse
    /\ wait_time' = 0
    /\ outcomes' = <<>>
    /\ log' = <<>>
    /\ IF GuardFails(doc, query)
       THEN pc' = "returned" /\ result' = Returned("str", GuardMsg, 0, "")
       ELSE pc' = "try" /\ result' = NoResult
    /\ UNCHANGED <<json_error_is_request_exception, ui_vars>>

\* One requests.post and everything up to the return, the escape of an
\* exception, or the call of time.sleep (lines 89-108).
Attempt(oc) ==
    /\ pc = "try"
    /\ LET it == Iteration(attempt, response, oc, json_error_is_request_exception) IN
       /\ pc' = it.pc
       /\ response' = it.response
       /\ result' = it.result
       /\ wait_time' = it.wait_time
    /\ outcomes' = Append(outcomes, oc)
    /\ log' = Append(log, Post(attempt + 1))
    /\ UNCHANGED <<attempt, document_content, user_query,
                   json_error_is_request_exception, ui_vars>>

\* time.sleep(wait_time) returns and the for loop advances (lines 104, 88, 110).
Sleep ==
    /\ pc = "sleep"
    /\ log' = Append(log, Slept(wait_time))
    /\ attempt' = attempt + 1
    /\ wait_time' = 0
    /\ IF attempt + 1 < max_retries
       THEN pc' = "try" /\ UNCHANGED result
       ELSE pc' = "returned" /\ result' = Returned("str", ExhaustedMsg, 0, "")
    /\ UNCHANGED <<response, outcomes, document_content, user_query,
                   json_error_is_request_exception, ui_vars>>

----------------------------------------------------------------------------
(* The same loop run to its end: every way one call can finish.             *)

\* Loop(a, resps, build): the ways the loop can end from iteration `a`
\* entered with `response` being one of `resps`.
RECURSIVE Loop(_, _, _)
Loop(a, resps, build) ==
    IF resps = {} THEN {}
    ELSE IF a >= max_retries
    THEN {[pc |-> "returned", result |-> Returned("str", ExhaustedMsg, 0, "")]}
    ELSE LET its == {Iteration(a, resp, oc, build) : resp \in resps, oc \in Outcomes} IN
         {[pc |-> it.pc, result |-> it.result] : it \in {i \in its : i.pc # "sleep"}}
         \cup Loop(a + 1, {it.response : it \in {i \in its : i.pc = "sleep"}}, build)

LoopEndsNewRequests == Loop(0, {NoResponse}, TRUE)
LoopEndsOldRequests == Loop(0, {NoResponse}, FALSE)

\* call_gemini_api(doc, query): the ways it can end.
call_gemini_api(doc, query, build) ==
    IF GuardFails(doc, query)
    THEN {[pc |-> "returned", result |-> Returned("str", GuardMsg, 0, "")]}
    ELSE IF build THEN LoopEndsNewRequests ELSE LoopEndsOldRequests

----------------------------------------------------------------------------
(* The Streamlit script.                                                    *)

MAX_CHARS == 150000

\* Characters around {file.name} and {text} in the chunk of one file.
MarkerChars == 48

UploadedFile(name, name_len, readable, chars) ==
    [name |-> name, name_len |-> name_len, readable |-> readable, chars |-> chars]

\* What the user may select in the uploader.
Files == { UploadedFile("latin1.txt", 10, FALSE, 500),
           UploadedFile("notes.txt", 9, TRUE, 1200),
           UploadedFile("book.pdf", 8, TRUE, 149936) }

Selections ==
    { fs \in UNION { [1..n -> Files] : n \in 1..MaxFiles } :
        \A i, j \in 1..Len(fs) : i # j => fs[i] # fs[j] }

\* Length of the text extract_text_from_file returns: "" when reading fails.
extract_text_from_file(file) == IF file.readable THEN file.chars ELSE 0

\* Files that contribute a chunk (`if text:`), in order.
RECURSIVE WithText(_)
WithText(fs) ==
    IF fs = <<>> THEN <<>>
    ELSE IF extract_text_from_file(Head(fs)) > 0
         THEN <<Head(fs)>> \o WithText(Tail(fs))
         ELSE WithText(Tail(fs))

ChunkLen(file) == MarkerChars + 2 * file.name_len + extract_text_from_file(file)

RECURSIVE SumChunks(_)
SumChunks(fs) == IF fs = <<>> THEN 0 ELSE ChunkLen(Head(fs)) + SumChunks(Tail(fs))

\* "\n".join(all_text_chunks)
JoinChunks(files) ==
    LET chunks == WithText(files) IN
    IF chunks = <<>> THEN EmptyContent
    ELSE Content([i \in 1..Len(chunks) |-> chunks[i].name],
                 SumChunks(chunks) + (Len(chunks) - 1))

TruncateOnePast(full_content) ==
    IF full_content.len > MAX_CHARS THEN Slice(full_content, MAX_CHARS + 1) ELSE full_content

\* Lines 218-220.
Truncate(full_content) ==
    IF full_content.len > MAX_CHARS THEN Slice(full_content, MAX_CHARS) ELSE full_content

NothingShown == [shown |-> FALSE, summary |-> NoResult, source |-> EmptyContent]
NoCall == [made |-> FALSE, document_content |-> EmptyContent, user_query |-> "",
           stored |-> EmptyContent]

UIInit ==
    /\ uploaded_files = <<>>
    /\ query_widget = ""
    /\ session_keys = {}
    /\ session_document_content = EmptyContent
    /\ summary_result = NoResult
    /\ summary_source = EmptyContent
    /\ displayed = NothingShown
    /\ last_call = NoCall

\* Whether the main area past line 199 is rendered.
MainAreaShown(keys, doc) == "document_content" \in keys /\ ~Falsy(doc)

\* One run of the script (lines 161-234) with the uploader holding `files`,
\* the text input holding `query`, `button` pressed ("none", "generate" or
\* "clear") and the call, if one is made, ending as `end`.  An exception
\* escaping the call aborts the run before line 224.  `st.rerun` at line 234
\* is not called, and the stray name at line 235 fails only after the
\* session state is written: neither changes what a run leaves behind.
\* A text input that is not rendered loses its value.
ScriptRun(files, query, button, end) ==
    LET keys1 == IF files # <<>> THEN session_keys \cup {"document_content"}
                 ELSE session_keys \ {"document_content"}
        doc1 == IF files # <<>> THEN JoinChunks(files) ELSE EmptyContent
        main == MainAreaShown(keys1, doc1)
        calls == main /\ button = "generate" /\ query # ""
        aborted == calls /\ end.pc = "raised"
        stores == calls /\ ~aborted
        keys2 == IF stores THEN keys1 \cup {"summary_result"} ELSE keys1
        summary2 == IF stores THEN end.result ELSE summary_result
        source2 == IF stores THEN doc1 ELSE summary_source
        shows == main /\ ~aborted /\ "summary_result" \in keys2
        clears == shows /\ button = "clear"
    IN
    /\ uploaded_files' = files
    /\ query_widget' = IF main THEN query ELSE ""
    /\ session_document_content' = doc1
    /\ session_keys' = IF clears THEN keys2 \ {"summary_result"} ELSE keys2
    /\ summary_result' = IF clears THEN NoResult ELSE summary2
    /\ summary_source' = IF clears THEN EmptyContent ELSE source2
    /\ displayed' = IF shows THEN [shown |-> TRUE, summary |-> summary2, source |-> source2]
                    ELSE NothingShown
    /\ last_call' = IF calls
                    THEN [made |-> TRUE, document_content |-> Truncate(doc1),
                          user_query |-> query, stored |-> doc1]
                    ELSE NoCall
    /\ UNCHANGED <<json_error_is_request_exception, client_vars>>

NoEnd == [pc |-> "returned", result |-> NoResult]

\* The user selects files, or replaces the selection.
UploadFiles(fs) ==
    /\ fs # uploaded_files
    /\ ScriptRun(fs, query_widget, "none", NoEnd)

\* The user removes every file from the uploader.
RemoveFiles ==
    /\ uploaded_files # <<>>
    /\ ScriptRun(<<>>, query_widget, "none", NoEnd)

\* The user types a question.
EnterQuestion(q) ==
    /\ MainAreaShown(session_keys, session_document_content)
    /\ q # query_widget
    /\ ScriptRun(uploaded_files, q, "none", NoEnd)

\* The user presses "Generate Summary / Answer".
Generate ==
    /\ MainAreaShown(session_keys, session_document_content)
    /\ \E end \in call_gemini_api(Truncate(JoinChunks(uploaded_files)), query_widget,
                                   json_error_is_request_exception) :
          ScriptRun(uploaded_files, query_widget, "generate", end)

\* The user presses "Clear Result".
ClearResult ==
    /\ displayed.shown
    /\ ScriptRun(uploaded_files, query_widget, "clear", NoEnd)

----------------------------------------------------------------------------

Init ==
    /\ json_error_is_request_exception \in BOOLEAN
    /\ ClientInit
    /\ UIInit

Next ==
    \/ \E doc \in CallerContents, query \in Queries : Call(doc, query)
    \/ \E oc \in Outcomes : Attempt(oc)
    \/ Sleep

Spec == Init /\ [][Next]_vars

NextUI ==
    \/ \E fs \in Selections : UploadFiles(fs)
    \/ RemoveFiles
    \/ \E q \in Queries : EnterQuestion(q)
    \/ Generate
    \/ ClearResult

SpecUI == Init /\ [][NextUI]_vars

----------------------------------------------------------------------------
(* Properties of call_gemini_api, checked under Spec.                       *)

\* The statuses the documentation calls retryable.
RetryableHttp(oc) == oc.status_code \in {429, 500, 503}
OtherHttpError(oc) == oc.status_code >= 400 /\ oc.status_code < 600 /\ ~RetryableHttp(oc)
NonError(oc) == oc.status_code >= 200 /\ oc.status_code < 400
Made == Len(outcomes)
Finished == pc \in {"returned", "raised"}
LastEvent == log[Len(log)]
PostCount == Cardinality({i \in 1..Len(log) : log[i].ev = "post"})
SleepCount == Cardinality({i \in 1..Len(log) : log[i].ev = "sleep"})

\* C1: whatever the transport answers, the call returns a string and no
\* exception escapes it.
C1_NeverRaises ==
    /\ pc # "raised"
    /\ pc = "returned" => result.type = "str"

\* C2: when all 5 attempts are answered with 429, 500 or 503 the call makes
\* exactly 5 attempts and returns the exhausted-retries message.
C2_ExhaustedMessage ==
    (Made = max_retries /\ Finished /\ \A i \in 1..Made : RetryableHttp(outcomes[i]))
        => /\ pc = "returned"
           /\ PostCount = 5
           /\ result.msg = ExhaustedMsg

\* post, sleep 1, post, sleep 2, ..., post: k sleeps between k+1 attempts.
ExpectedLog(k) ==
    [i \in 1..(2 * k + 1) |->
        IF i % 2 = 1 THEN Post((i + 1) \div 2) ELSE Slept(2 ^ ((i \div 2) - 1))]

RetriedThenAnswered(k) ==
    /\ Made = k + 1
    /\ \A i \in 1..k : RetryableHttp(outcomes[i])
    /\ NonError(outcomes[k + 1])
    /\ outcomes[k + 1].body = "valid"

\* C3: k retryable statuses followed by a valid answer yield the extracted
\* text after k+1 attempts and k sleeps of 1, 2, 4, ... each between two
\* consecutive attempts.
C3_BackoffSchedule ==
    \A k \in 0..(max_retries - 1) :
        RetriedThenAnswered(k)
            => /\ pc = "returned"
               /\ result = Returned("str", AnswerText, 0, "")
               /\ log = ExpectedLog(k)

C3_Witness ==
    /\ RetriedThenAnswered(4)
    /\ pc = "returned"
    /\ [i \in 1..4 |-> log[2 * i].arg] = <<1, 2, 4, 8>>

\* C4: an empty document_content or an empty user_query returns the guard
\* message with no network attempt and no sleep.
C4_GuardClause ==
    (pc # "idle" /\ (document_content.len = 0 \/ user_query = ""))
        => /\ pc = "returned"
           /\ result = Returned("str", GuardMsg, 0, "")
           /\ PostCount = 0
           /\ SleepCount = 0
           /\ outcomes = <<>>

C4_Witness ==
    /\ pc = "returned"
    /\ document_content.len > 0
    /\ user_query = ""
    /\ result.msg = GuardMsg

LacksPathStep == {"no_candidates", "empty_candidates", "no_content", "no_parts",
                  "empty_parts", "no_text"}

\* C6: a non-error response whose body lacks any step of the path returns
\* the placeholder, never a failure message.
C6_PlaceholderOnMissingStep ==
    (Made > 0 /\ NonError(outcomes[Made]) /\ outcomes[Made].body \in LacksPathStep)
        => /\ pc = "returned"
           /\ result = Returned("str", PlaceholderText, 0, "")

\* Bodies whose reading raises: not JSON, or JSON of an unexpected shape.
NotJson == {"not_json"}
UnexpectedShape == {"list_body", "null_content", "empty_candidates", "empty_parts"}
ParseRaises(oc) == NonError(oc) /\ oc.body \in NotJson \cup UnexpectedShape

\* C7 as stated: whenever reading the body raises, the call returns the
\* unexpected-error message and makes no further attempt and no sleep.
C7_ParseErrorIsUnexpected ==
    \A n \in 1..Made :
        ParseRaises(outcomes[n])
            => /\ n = Made
               /\ pc = "returned"
               /\ result.msg = UnexpectedMsg
               /\ LastEvent = Post(n)

\* C7 amended: whenever reading the body raises, the call returns a failure
\* string with no further attempt and no sleep; the message is the
\* unexpected-error one, except that a body that is not JSON yields the
\* API-error message with the attempt number when the JSON decode error is
\* a RequestException.
C7_ParseErrorEndsCall ==
    \A n \in 1..Made :
        ParseRaises(outcomes[n])
            => /\ n = Made
               /\ pc = "returned"
               /\ result.type = "str"
               /\ LastEvent = Post(n)
               /\ IF outcomes[n].body \in NotJson /\ json_error_is_request_exception
                  THEN result.msg = ApiErrorMsg /\ result.attempts = n
                  ELSE result.msg = UnexpectedMsg

C7_Witness ==
    /\ Made = 2
    /\ outcomes[2].body = "not_json"
    /\ json_error_is_request_exception
    /\ pc = "returned"
    /\ result.msg = ApiErrorMsg

\* C9: an attempt that gets no HTTP response is never followed by a sleep
\* or another attempt and ends the call with the API-error message carrying
\* its number.
C9_ConnectionFailureEndsCall ==
    \A n \in 1..Made :
        outcomes[n] = ConnectionFailure
            => /\ n = Made
               /\ pc = "returned"
               /\ result.msg = ApiErrorMsg
               /\ result.attempts = n
               /\ LastEvent = Post(n)

----------------------------------------------------------------------------
(* Properties of the Streamlit script, checked under SpecUI.                *)

\* C8: the content passed to call_gemini_api is the stored content when
\* that has at most 150000 characters and its first 150000 characters
\* otherwise; the stored content is left as it was.
C8_TruncatedPrefix ==
    last_call.made
        => /\ last_call.user_query # ""
           /\ last_call.document_content.len <= 150000
           /\ last_call.document_content.src = last_call.stored.src
           /\ last_call.document_content.len =
                  (IF last_call.stored.len <= 150000 THEN last_call.stored.len ELSE 150000)
           /\ session_document_content = last_call.stored
           /\ session_document_content = JoinChunks(uploaded_files)

C8_Witness ==
    /\ last_call.made
    /\ last_call.stored.len > 150000
    /\ last_call.document_content.len = 150000
    /\ session_document_content.len > 150000

\* C10: a displayed AI response was computed from the document content
\* now stored in session state.
C10_DisplayedMatchesStored ==
    displayed.shown
        => /\ "document_content" \in session_keys
           /\ displayed.source = session_document_content

====
